---- MODULE Spec2Model ----
(***************************************************************************)
(* The AutoDock dashboard server, src/server/index.js: one Node process    *)
(* holding three process-wide variables (deploymentStats, projects,        *)
(* systemInfo), a periodic refresh that probes docker, the host, the       *)
(* workflow directory and the cloud metadata endpoint, and six HTTP        *)
(* handlers.                                                               *)
(*                                                                         *)
(* A step of the model is one turn of the Node event loop: the code that   *)
(* runs between two awaits, or a whole synchronous handler or callback.    *)
(* An async function that touches no process-wide variable between its     *)
(* awaits is modelled by the step in which its last await resolves, the    *)
(* outputs of all its commands being drawn in that step: the four probes   *)
(* of a refresh run settle in the step in which Promise.all resolves.      *)
(*                                                                         *)
(* The scripts that deploy the server to the EC2 host, deployment/deploy.sh *)
(* and the deploy job of the workflow, are modelled beside it: a step is   *)
(* one command of the script.                                              *)
(***************************************************************************)
EXTENDS Integers, Sequences, FiniteSets, TLC

VARIABLES
    nodeEnv,          \* process.env.NODE_ENV, set before the process starts
    alive,            \* the process is running (no SIGTERM / SIGINT yet)
    deploymentStats,  \* index.js:17  {total, successful, failed}
    attempts,         \* the setTimeout callbacks created by POST /api/deploy, in creation order
    systemInfo,       \* index.js:24  the published snapshot
    projects,         \* index.js:23  the project list last derived
    runs,             \* the invocations of initializeSystemData, in start order
    healthPending,    \* GET /api/health requests awaiting getSystemMetrics
    projectsPending,  \* GET /api/projects requests awaiting getGitProjects
    event,            \* what the step just taken put out: an HTTP response, a published snapshot
    rollout,          \* the deployment script running on the EC2 host and its position
    host              \* the application container of the EC2 host and the image :latest names

vars == <<rollout, host, nodeEnv, alive, deploymentStats, attempts, systemInfo, projects, runs,
          healthPending, projectsPending, event>>

----------------------------------------------------------------------------
(* Bounds of the model. *)

MaxDeploys == 2     \* accepted POST /api/deploy requests
MaxRuns == 2        \* invocations of initializeSystemData (startup + ticks)
MaxPending == 1     \* requests of one async endpoint in flight at a time
MaxRollouts == 3    \* runs of a deployment script on the host

----------------------------------------------------------------------------
(* JavaScript values as they arrive in a parsed JSON body. *)

JsUndefined == [t |-> "undefined", n |-> 0, s |-> ""]
JsNull == [t |-> "null", n |-> 0, s |-> ""]
JsNum(k) == [t |-> "number", n |-> k, s |-> ""]
JsStr(x) == [t |-> "string", n |-> 0, s |-> x]
JsBool(b) == [t |-> "boolean", n |-> IF b THEN 1 ELSE 0, s |-> ""]

\* ToBoolean: what `!v` negates.
ToBoolean(v) ==
    CASE v.t = "undefined" -> FALSE
      [] v.t = "null" -> FALSE
      [] v.t = "number" -> v.n # 0
      [] v.t = "string" -> v.s # ""
      [] v.t = "boolean" -> v.n = 1

Digit(d) ==
    CASE d = 0 -> "0" [] d = 1 -> "1" [] d = 2 -> "2" [] d = 3 -> "3"
      [] d = 4 -> "4" [] d = 5 -> "5" [] d = 6 -> "6" [] d = 7 -> "7"
      [] d = 8 -> "8" [] d = 9 -> "9"

RECURSIVE NumToStr(_)
NumToStr(k) == IF k < 10 THEN Digit(k) ELSE NumToStr(k \div 10) \o Digit(k % 10)

\* ToString: what a template literal `${v}` inserts.
ToStringJs(v) ==
    CASE v.t = "undefined" -> "undefined"
      [] v.t = "null" -> "null"
      [] v.t = "number" -> NumToStr(v.n)
      [] v.t = "string" -> v.s
      [] v.t = "boolean" -> IF v.n = 1 THEN "true" ELSE "false"

\* A field the handler did not put in the object.
Absent == "<absent>"

----------------------------------------------------------------------------
(* Inputs. *)

\* req.body.projectId: absent, present and falsy, present and truthy.
ProjectIds == {JsUndefined, JsNum(0), JsStr(""), JsNum(1), JsStr("web")}
\* req.body.branch
Branches == {JsUndefined, JsStr("dev")}
\* Date.now() readings (milliseconds, scaled down to fit 32-bit integers).
Clock == {41, 1700}
\* Math.random() readings, in tenths: 0.0, 0.1, 0.5.
RandomTenths == {0, 1, 5}

----------------------------------------------------------------------------
(* Text produced by external commands.  A stdout is held as the sequence   *)
(* of its lines (what split('\n') returns), a line as the sequence of its  *)
(* tab-separated fields (what split('\t') returns), so both splits are     *)
(* exact; "" is the empty string, <<"">> the empty line.                   *)

\* String.prototype.includes over the strings the commands print here.
Includes(s, sub) ==
    \/ s = sub
    \/ <<s, sub>> \in { <<"NAMES      STATUS       PORTS", "NAMES">>,
                       <<"Up 2 hours", "Up">>,
                       <<"web   Up 2 hours   80/tcp", "Up">>,
                       <<"Not a git repo\n", "Not a git repo">>,
                       <<"Not on AWS\n", "Not on AWS">> }

LineIncludes(line, sub) == \E i \in 1..Len(line) : Includes(line[i], sub)

\* String.prototype.trim over the same strings.
Trim(s) ==
    CASE s = "main\n" -> "main"
      [] s = "dev\n" -> "dev"
      [] s = "Not on AWS\n" -> "Not on AWS"
      [] s = "i-0abc\n" -> "i-0abc"
      [] s = "1.2.3.4\n" -> "1.2.3.4"
      [] s = "Unknown\n" -> "Unknown"
      [] s = "/dev/xvda1 8G 3G 5G 38% /\n" -> "/dev/xvda1 8G 3G 5G 38% /"
      [] OTHER -> s

\* s.substring(0, 8)
Substring8(s) ==
    CASE s = "3f2a9c1e7b55" -> "3f2a9c1e"
      [] s = "No commits\n" -> "No commi"
      [] OTHER -> s

\* A line is truthy unless it is the empty string.
LineTruthy(line) == line # <<"">>

\* What execAsync resolves or rejects with.
Ok(out) == [ok |-> TRUE, out |-> out]
Failed == [ok |-> FALSE, out |-> <<>>]      \* of a command whose stdout is held as lines or fields
FailedText == [ok |-> FALSE, out |-> ""]    \* of a command whose stdout is held whole

PsHeader == <<"NAMES", "STATUS", "PORTS">>
WebUp == <<"web", "Up 2 hours", "80/tcp">>
DbExited == <<"db", "Exited (0) 3 days ago", "">>

\* docker ps --format "table ..." : stdout when the command succeeds.
PsOutputs ==
    { << <<"">> >>,                                    \* nothing printed
      << PsHeader, <<"">> >>,                          \* no container
      << PsHeader, WebUp, <<"">> >>,                   \* one container
      << PsHeader, WebUp, DbExited, <<"">> >>,         \* two containers
      << PsHeader, WebUp >>,                           \* no trailing newline
      << <<"NAMES      STATUS       PORTS">>,
         <<"web   Up 2 hours   80/tcp">>, <<"">> >>,   \* columns padded, no tab
      << PsHeader, <<"", "Up 2 hours", "">>, WebUp, <<"">> >> }  \* a line with no name

\* docker images --format "table ..."
ImagesOutputs ==
    { << <<"REPOSITORY", "TAG", "CREATED AT">>, <<"app", "latest", "2025-06-01">>, <<"">> >> }

PsOutcomes == {Failed} \cup {Ok(o) : o \in PsOutputs}
ImagesOutcomes == {Failed} \cup {Ok(o) : o \in ImagesOutputs}

\* os.uptime(), os.hostname(), os.platform(), os.arch(): never fail.
Host == [uptime |-> 3600, hostname |-> "ip-10-0-0-1", platform |-> "linux", arch |-> "x64"]

----------------------------------------------------------------------------
(* The four probes of a refresh.  `run` is the refresh run that called the *)
(* probe (0: a request handler did), kept in the result to tell the        *)
(* results of two runs apart.                                              *)

\* getDockerInfo computing containerCount outside the try, so also when docker ps failed.
getDockerInfoCountsAnyway(run, ps, images) ==
    IF ps.ok /\ images.ok
    THEN [run |-> run, running |-> TRUE, error |-> Absent,
          containers |-> SelectSeq(ps.out,
                            LAMBDA line : LineTruthy(line) /\ ~LineIncludes(line, "NAMES")),
          images |-> SelectSeq(images.out,
                            LAMBDA line : LineTruthy(line) /\ ~LineIncludes(line, "REPOSITORY")),
          containerCount |-> Len(ps.out) - 2]
    ELSE [run |-> run, running |-> FALSE,
          error |-> IF ps.ok THEN "Command failed: docker images" ELSE "Command failed: docker ps",
          containers |-> <<>>, images |-> <<>>,
          containerCount |-> Len(ps.out) - 2]

getDockerInfo(run, ps, images) ==
    IF ps.ok /\ images.ok
    THEN [run |-> run,
          running |-> TRUE,
          error |-> Absent,
          containers |-> SelectSeq(ps.out,
                            LAMBDA line : LineTruthy(line) /\ ~LineIncludes(line, "NAMES")),
          images |-> SelectSeq(images.out,
                            LAMBDA line : LineTruthy(line) /\ ~LineIncludes(line, "REPOSITORY")),
          containerCount |-> Len(ps.out) - 2]
    ELSE [run |-> run,
          running |-> FALSE,
          error |-> IF ps.ok THEN "Command failed: docker images" ELSE "Command failed: docker ps",
          containers |-> <<>>,
          images |-> <<>>,
          containerCount |-> 0]

\* df -h / | tail -1   and   free -h
DfOutcomes == {FailedText, Ok("/dev/xvda1 8G 3G 5G 38% /\n")}
FreeOutcomes == {FailedText, Ok("Mem: 1.9Gi 600Mi")}

getSystemMetrics(run, df, free) ==
    IF df.ok /\ free.ok
    THEN [run |-> run,
          uptime |-> Host.uptime,
          hostname |-> Host.hostname,
          platform |-> Host.platform,
          architecture |-> Host.arch,
          diskUsage |-> Trim(df.out),
          memoryInfo |-> free.out,
          error |-> Absent]
    ELSE [run |-> run,
          uptime |-> Host.uptime,
          hostname |-> Host.hostname,
          platform |-> Host.platform,
          architecture |-> Absent,
          diskUsage |-> Absent,
          memoryInfo |-> Absent,
          error |-> IF df.ok THEN "Command failed: free" ELSE "Command failed: df"]

\* fs.readdir('.github/workflows')
ReaddirOutcomes == {Failed, Ok(<<>>), Ok(<<"deploy.yml">>)}

checkGitHubActions(run, readdir) ==
    LET files == IF readdir.ok THEN readdir.out ELSE <<>>     \* .catch(() => [])
    IN  [run |-> run,
         active |-> Len(files) > 0,
         workflows |-> files,
         count |-> Len(files),
         error |-> Absent]

\* curl checkip || echo "Unknown"   and   curl instance-id || echo "Not on AWS"
IpOutcomes == {FailedText, Ok("1.2.3.4\n")}
MetaOutcomes == {FailedText, Ok("i-0abc\n"), Ok("Not on AWS\n")}

checkAWSConnection(run, ip, meta) ==
    IF ip.ok /\ meta.ok
    THEN [run |-> run,
          connected |-> ~Includes(meta.out, "Not on AWS"),
          publicIP |-> Trim(ip.out),
          instanceId |-> Trim(meta.out),
          region |-> "us-east-1",
          error |-> Absent]
    ELSE [run |-> run,
          connected |-> FALSE,
          publicIP |-> "Unknown",
          instanceId |-> "Unknown",
          region |-> Absent,
          error |-> IF ip.ok THEN "Command failed: curl instance-id" ELSE "Command failed: curl checkip"]

----------------------------------------------------------------------------
(* The project deriver. *)

\* git status --porcelain 2>/dev/null || echo "Not a git repo"
GitStatusOutcomes == {FailedText, Ok(""), Ok("Not a git repo\n")}
\* git branch --show-current 2>/dev/null || echo "main"
GitBranchOutcomes == {FailedText, Ok("dev\n")}
\* git log -1 --format="%H|%an|%ad|%s" 2>/dev/null || echo "No commits",
\* held as its '|'-separated fields (what split('|') returns)
GitLogOutcomes == {Failed, Ok(<<"3f2a9c1e7b55", "alice", "Mon Jun 2", "fix\n">>), Ok(<<"No commits\n">>)}
\* Math.floor(Math.random() * 50) + 1
RandomDeployments == {1, 50}

ProjectName == "DockerHub Auto-Deploy System"

\* The i-th element of a destructured array, undefined past its end.
At(fields, i) == IF i <= Len(fields) THEN <<fields[i]>> ELSE <<>>

GitEntry(gitBranch, gitLog, dockerInfo, total) ==
    [id |-> 1,
     name |-> ProjectName,
     status |-> IF dockerInfo.running THEN "deployed" ELSE "stopped",
     deployments |-> total,
     branch |-> Trim(gitBranch.out),
     gitInfo |-> << [lastCommit |-> Substring8(gitLog.out[1]),     \* split never returns []
                     author |-> At(gitLog.out, 2),
                     message |-> At(gitLog.out, 4),
                     date |-> At(gitLog.out, 3)] >>,
     containerInfo |-> <<>>,
     error |-> Absent]

\* The callback of dockerInfo.containers.forEach pushes for this container.
ContainerPushes(container) == container[1] # "" /\ container[1] # "NAMES"

\* status.includes('Up') on an undefined status: TypeError.
ContainerThrows(container) == ContainerPushes(container) /\ Len(container) < 2

ContainerEntry(container, index, rnd) ==
    [id |-> index + 2,
     name |-> Trim(container[1]),
     status |-> IF Includes(container[2], "Up") THEN "deployed" ELSE "stopped",
     deployments |-> rnd,
     branch |-> "main",
     gitInfo |-> <<>>,
     containerInfo |-> << [status |-> Trim(container[2]),
                           ports |-> IF Len(container) >= 3 /\ Trim(container[3]) # ""
                                     THEN Trim(container[3]) ELSE "No ports exposed"] >>,
     error |-> Absent]

Placeholder(total) ==
    [id |-> 1, name |-> ProjectName, status |-> "running", deployments |-> total,
     branch |-> "main", gitInfo |-> <<>>, containerInfo |-> <<>>, error |-> Absent]

Fallback(total, message) ==
    [id |-> 1, name |-> ProjectName, status |-> "unknown", deployments |-> total,
     branch |-> "main", gitInfo |-> <<>>, containerInfo |-> <<>>, error |-> message]

\* index (0-based) runs over dockerInfo.containers; rnd[index + 1] is that callback's random draw.
RECURSIVE ContainerEntries(_, _, _)
ContainerEntries(containers, index, rnd) ==
    IF index >= Len(containers) THEN <<>>
    ELSE (IF ContainerPushes(containers[index + 1])
          THEN <<ContainerEntry(containers[index + 1], index, rnd[index + 1])>>
          ELSE <<>>)
         \o ContainerEntries(containers, index + 1, rnd)

\* The deriver reading the docker entry of the snapshot instead of calling getDockerInfo.
getGitProjectsFromSnapshot(gitStatus, gitBranch, gitLog, ps, images, rnd, total) ==
    LET dockerInfo == IF systemInfo.published THEN systemInfo.docker
                      ELSE [running |-> FALSE, containers |-> <<>>]
        realProjects ==
            (IF ~Includes(gitStatus.out, "Not a git repo")
             THEN <<GitEntry(gitBranch, gitLog, dockerInfo, total)>> ELSE <<>>)
            \o ContainerEntries(dockerInfo.containers, 0, rnd)
    IN  IF ~gitStatus.ok \/ ~gitBranch.ok \/ ~gitLog.ok
        THEN <<Fallback(total, "Command failed: git")>>
        ELSE IF \E i \in 1..Len(dockerInfo.containers) : ContainerThrows(dockerInfo.containers[i])
        THEN <<Fallback(total, "Cannot read properties of undefined (reading 'includes')")>>
        ELSE IF Len(realProjects) > 0 THEN realProjects
        ELSE <<Placeholder(total)>>

\* The catch appending its entry to the entries pushed before the callback threw.
getGitProjectsKeepingDerived(gitStatus, gitBranch, gitLog, ps, images, rnd, total) ==
    LET dockerInfo == getDockerInfo(0, ps, images)
        gitEntries ==
            IF ~Includes(gitStatus.out, "Not a git repo")
            THEN <<GitEntry(gitBranch, gitLog, dockerInfo, total)>> ELSE <<>>
        realProjects ==
            gitEntries \o ContainerEntries(dockerInfo.containers, 0, rnd)
    IN  IF ~gitStatus.ok \/ ~gitBranch.ok \/ ~gitLog.ok
        THEN <<Fallback(total, "Command failed: git")>>
        ELSE IF \E i \in 1..Len(dockerInfo.containers) : ContainerThrows(dockerInfo.containers[i])
        THEN gitEntries
             \o <<Fallback(total, "Cannot read properties of undefined (reading 'includes')")>>
        ELSE IF Len(realProjects) > 0 THEN realProjects
        ELSE <<Placeholder(total)>>

\* The result of getGitProjects: `total` is deploymentStats.total when the last await resolves.
getGitProjects(gitStatus, gitBranch, gitLog, ps, images, rnd, total) ==
    LET dockerInfo == getDockerInfo(0, ps, images)
        realProjects ==
            (IF ~Includes(gitStatus.out, "Not a git repo")
             THEN <<GitEntry(gitBranch, gitLog, dockerInfo, total)>> ELSE <<>>)
            \o ContainerEntries(dockerInfo.containers, 0, rnd)
    IN  IF ~gitStatus.ok \/ ~gitBranch.ok \/ ~gitLog.ok
        THEN <<Fallback(total, "Command failed: git")>>
        ELSE IF \E i \in 1..Len(dockerInfo.containers) : ContainerThrows(dockerInfo.containers[i])
        THEN <<Fallback(total, "Cannot read properties of undefined (reading 'includes')")>>
        ELSE IF Len(realProjects) > 0 THEN realProjects
        ELSE <<Placeholder(total)>>

\* The random draws one call of getGitProjects may make.
RandomDraws == [1..2 -> RandomDeployments]

----------------------------------------------------------------------------
(* What the commands may answer.  An environment gives, for each command,  *)
(* the outcomes an invocation draws from.                                  *)

\* new Date().toLocaleTimeString()
TimeStrings == {"10:15:00 AM", "10:15:01 AM"}

FullEnv ==
    [projectIds |-> ProjectIds, branches |-> Branches, clock |-> Clock,
     randomTenths |-> RandomTenths, timeStrings |-> TimeStrings,
     ps |-> PsOutcomes, images |-> ImagesOutcomes,
     df |-> DfOutcomes, free |-> FreeOutcomes,
     readdir |-> ReaddirOutcomes,
     ip |-> IpOutcomes, meta |-> MetaOutcomes,
     gitStatus |-> GitStatusOutcomes, gitBranch |-> GitBranchOutcomes,
     gitLog |-> GitLogOutcomes,
     random |-> RandomDraws]

\* Every probe can fail or succeed, docker lists no or one container, the working
\* directory is a git repository or not.
SmallEnv ==
    [projectIds |-> ProjectIds, branches |-> Branches, clock |-> Clock,
     randomTenths |-> RandomTenths, timeStrings |-> TimeStrings,
     ps |-> {Failed, Ok(<< PsHeader, <<"">> >>), Ok(<< PsHeader, WebUp, <<"">> >>)},
     images |-> ImagesOutcomes \ {Failed},
     df |-> DfOutcomes, free |-> FreeOutcomes \ {FailedText},
     readdir |-> {Failed, Ok(<<"deploy.yml">>)},
     ip |-> IpOutcomes \ {FailedText}, meta |-> MetaOutcomes,
     gitStatus |-> GitStatusOutcomes \ {FailedText}, gitBranch |-> GitBranchOutcomes \ {FailedText},
     gitLog |-> {Ok(<<"3f2a9c1e7b55", "alice", "Mon Jun 2", "fix\n">>)},
     random |-> {[i \in 1..2 |-> 1]}]

\* Every command succeeds with one answer: a git repository, docker listing one
\* container.  A deploy request carries no projectId or projectId 1, and its attempt
\* succeeds or fails.
TinyEnv ==
    [projectIds |-> {JsUndefined, JsNum(1)}, branches |-> {JsUndefined}, clock |-> {41},
     randomTenths |-> {0, 5}, timeStrings |-> {"10:15:00 AM"},
     ps |-> {Ok(<< PsHeader, WebUp, <<"">> >>)},
     images |-> ImagesOutcomes \ {Failed},
     df |-> DfOutcomes \ {FailedText}, free |-> FreeOutcomes \ {FailedText},
     readdir |-> {Ok(<<"deploy.yml">>)},
     ip |-> IpOutcomes \ {FailedText}, meta |-> {Ok("i-0abc\n")},
     gitStatus |-> {Ok("")}, gitBranch |-> GitBranchOutcomes \ {FailedText},
     gitLog |-> {Ok(<<"3f2a9c1e7b55", "alice", "Mon Jun 2", "fix\n">>)},
     random |-> {[i \in 1..2 |-> 1]}]

----------------------------------------------------------------------------
(* State after the module is loaded (index.js:1-249 and 390-407 have run): *)
(* the startup call of initializeSystemData has started its four probes.   *)

\* let systemInfo = {}
EmptySnapshot == [published |-> FALSE]

\* The step put nothing out.
NoEvent == [op |-> "none"]

\* NODE_ENV as the container or the shell sets it (deploy.sh:89 sets production).
NodeEnvs == {"development", "production"}

\* No deployment script is running.
Idle == [script |-> "none", pc |-> 0, result |-> "idle", count |-> 0]

\* The host after an earlier deployment: the container of the image pulled then is up
\* and answers /api/health.
Deployed == [running |-> "old", healthy |-> TRUE, latest |-> "old"]

Init ==
    /\ rollout = Idle
    /\ host = Deployed
    /\ nodeEnv \in NodeEnvs
    /\ alive = TRUE
    /\ deploymentStats = [total |-> 0, successful |-> 0, failed |-> 0]
    /\ attempts = <<>>
    /\ systemInfo = EmptySnapshot
    /\ projects = <<>>
    /\ runs = <<"probing">>
    /\ healthPending = 0
    /\ projectsPending = 0
    /\ event = NoEvent

\* res.status(status).json(body), in answer to `request` (the request and what the
\* handler's commands and clock answered).
Respond(op, request, status, body) ==
    event' = [op |-> op, request |-> request, status |-> status, body |-> body]

Silent == event' = NoEvent

----------------------------------------------------------------------------
(* The refresh: initializeSystemData.  runs[r] is where the r-th started   *)
(* run stands: "probing" (awaiting Promise.all), "deriving" (awaiting      *)
(* getGitProjects) or "done".                                              *)

\* The tick skipped while an earlier run has not finished.
TickUnlessPending ==
    /\ alive
    /\ Len(runs) < MaxRuns
    /\ \A r \in 1..Len(runs) : runs[r] = "done"
    /\ runs' = Append(runs, "probing")
    /\ Silent
    /\ UNCHANGED <<rollout, host, nodeEnv, alive, deploymentStats, attempts, systemInfo,
                   projects, healthPending, projectsPending>>

\* setInterval(initializeSystemData, 30000): a tick starts a run, whatever the earlier runs do.
\* A probe's result carrying the message of the error it caught.
Degraded(result) == result.error # Absent

\* The timer cleared once the snapshot shows a failed probe.
TickUntilFailure ==
    /\ alive
    /\ Len(runs) < MaxRuns
    /\ ~(systemInfo.published /\ (Degraded(systemInfo.docker) \/ Degraded(systemInfo.system)))
    /\ runs' = Append(runs, "probing")
    /\ Silent
    /\ UNCHANGED <<rollout, host, nodeEnv, alive, deploymentStats, attempts, systemInfo, projects,
                   healthPending, projectsPending>>

Tick ==
    /\ alive
    /\ Len(runs) < MaxRuns
    /\ runs' = Append(runs, "probing")
    /\ Silent
    /\ UNCHANGED <<rollout, host, nodeEnv, alive, deploymentStats, attempts, systemInfo, projects,
                   healthPending, projectsPending>>

\* A command of one of the four probes of run r never terminates: execAsync is called
\* without a timeout, so the run's Promise.all never resolves.
Hang(r) ==
    /\ alive
    /\ runs[r] = "probing"
    /\ runs' = [runs EXCEPT ![r] = "hung"]
    /\ Silent
    /\ UNCHANGED <<rollout, host, nodeEnv, alive, deploymentStats, attempts, systemInfo,
                   projects, healthPending, projectsPending>>

\* The assignment keeping the last good entry of a probe that failed.
SnapshotKeepsLastGood(info, dockerInfo, systemMetrics, gitHubInfo, awsInfo) ==
    [published |-> TRUE,
     docker |-> IF info.published /\ Degraded(dockerInfo) THEN info.docker ELSE dockerInfo,
     system |-> IF info.published /\ Degraded(systemMetrics) THEN info.system ELSE systemMetrics,
     github |-> IF info.published /\ Degraded(gitHubInfo) THEN info.github ELSE gitHubInfo,
     aws |-> IF info.published /\ Degraded(awsInfo) THEN info.aws ELSE awsInfo]

\* The assignment skipped when a probe failed: a probe that rejects instead of catching.
SnapshotUnlessFailed(info, dockerInfo, systemMetrics, gitHubInfo, awsInfo) ==
    IF Degraded(dockerInfo) \/ Degraded(systemMetrics) \/ Degraded(awsInfo)
    THEN info
    ELSE [published |-> TRUE, docker |-> dockerInfo, system |-> systemMetrics,
          github |-> gitHubInfo, aws |-> awsInfo]

\* systemInfo = { docker, system, github, aws, lastUpdated }: the assignment of
\* index.js:229-235 (lastUpdated, a clock reading, is left out).  `info` is the
\* snapshot it replaces.
Snapshot(info, dockerInfo, systemMetrics, gitHubInfo, awsInfo) ==
    [published |-> TRUE, docker |-> dockerInfo, system |-> systemMetrics,
     github |-> gitHubInfo, aws |-> awsInfo]

\* The run emptying the project list when it assigns the snapshot.
PublishClearingProjects(r, env) ==
    /\ alive
    /\ runs[r] = "probing"
    /\ \E ps \in env.ps, images \in env.images, df \in env.df, free \in env.free,
          readdir \in env.readdir, ip \in env.ip, meta \in env.meta :
          /\ systemInfo' = Snapshot(systemInfo,
                                    getDockerInfo(r, ps, images),
                                    getSystemMetrics(r, df, free),
                                    checkGitHubActions(r, readdir),
                                    checkAWSConnection(r, ip, meta))
          /\ event' = [op |-> "publish", run |-> r, ps |-> ps, images |-> images, df |-> df,
                       free |-> free, readdir |-> readdir, ip |-> ip, meta |-> meta]
    /\ projects' = <<>>
    /\ runs' = [runs EXCEPT ![r] = "deriving"]
    /\ UNCHANGED <<rollout, host, nodeEnv, alive, deploymentStats, attempts,
                   healthPending, projectsPending>>

\* Promise.all of run r resolves: no probe rejects, each has caught its own failure.
Publish(r, env) ==
    /\ alive
    /\ runs[r] = "probing"
    /\ \E ps \in env.ps, images \in env.images, df \in env.df, free \in env.free,
          readdir \in env.readdir, ip \in env.ip, meta \in env.meta :
          /\ systemInfo' = Snapshot(systemInfo,
                                    getDockerInfo(r, ps, images),
                                    getSystemMetrics(r, df, free),
                                    checkGitHubActions(r, readdir),
                                    checkAWSConnection(r, ip, meta))
          /\ event' = [op |-> "publish", run |-> r, ps |-> ps, images |-> images, df |-> df,
                       free |-> free, readdir |-> readdir, ip |-> ip, meta |-> meta]
    /\ runs' = [runs EXCEPT ![r] = "deriving"]
    /\ UNCHANGED <<rollout, host, nodeEnv, alive, deploymentStats, attempts, projects,
                   healthPending, projectsPending>>

\* The refresh re-creating the counters along with the rest of the in-memory state.
DeriveProjectsResetting(r, env) ==
    /\ alive
    /\ runs[r] = "deriving"
    /\ \E gitStatus \in env.gitStatus, gitBranch \in env.gitBranch,
          gitLog \in env.gitLog, ps \in env.ps, images \in env.images,
          rnd \in env.random :
          projects' = getGitProjects(gitStatus, gitBranch, gitLog, ps, images, rnd, 0)
    /\ deploymentStats' = [total |-> 0, successful |-> 0, failed |-> 0]
    /\ runs' = [runs EXCEPT ![r] = "done"]
    /\ Silent
    /\ UNCHANGED <<rollout, host, nodeEnv, alive, attempts, systemInfo, healthPending, projectsPending>>

\* projects = await getGitProjects()  (index.js:237), the last step of a run.
DeriveProjects(r, env) ==
    /\ alive
    /\ runs[r] = "deriving"
    /\ \E gitStatus \in env.gitStatus, gitBranch \in env.gitBranch,
          gitLog \in env.gitLog, ps \in env.ps, images \in env.images,
          rnd \in env.random :
          projects' = getGitProjects(gitStatus, gitBranch, gitLog, ps, images, rnd,
                                     deploymentStats.total)
    /\ runs' = [runs EXCEPT ![r] = "done"]
    /\ Silent
    /\ UNCHANGED <<rollout, host, nodeEnv, alive, deploymentStats, attempts, systemInfo,
                   healthPending, projectsPending>>

----------------------------------------------------------------------------
(* The GET handlers. *)

HealthRequest ==
    /\ alive
    /\ healthPending < MaxPending
    /\ healthPending' = healthPending + 1
    /\ Silent
    /\ UNCHANGED <<rollout, host, nodeEnv, alive, deploymentStats, attempts, systemInfo, projects, runs,
                   projectsPending>>

\* timestamp, uptime (clock readings) and environment (NODE_ENV) are left out.
HealthBody(systemMetrics) ==
    [status |-> "OK",
     systemUptime |-> systemMetrics.uptime,
     version |-> "1.0.0",
     hostname |-> systemMetrics.hostname,
     platform |-> systemMetrics.platform]

\* The handler reporting degraded metrics as unhealthy.
HealthAnswerUnlessDegraded(systemMetrics) ==
    IF systemMetrics.error # Absent
    THEN [status |-> 503, body |-> [status |-> "DEGRADED"]]
    ELSE [status |-> 200, body |-> HealthBody(systemMetrics)]

\* The status and body GET /api/health answers with, given what getSystemMetrics returned.
HealthAnswer(systemMetrics) == [status |-> 200, body |-> HealthBody(systemMetrics)]

HealthRespond(env) ==
    /\ alive
    /\ healthPending > 0
    /\ healthPending' = healthPending - 1
    /\ \E df \in env.df, free \in env.free :
          LET answer == HealthAnswer(getSystemMetrics(0, df, free))
          IN  Respond("health", [df |-> df.ok, free |-> free.ok], answer.status, answer.body)
    /\ UNCHANGED <<rollout, host, nodeEnv, alive, deploymentStats, attempts, systemInfo, projects, runs,
                   projectsPending>>

\* systemInfo.docker?.running || false, and the like
\* The flag defaulting to true: systemInfo.docker?.running ?? true
FlagDefaultTrue(group, field) == ~systemInfo.published \/ systemInfo[group][field]

Flag(group, field) == systemInfo.published /\ systemInfo[group][field]

StatusBody ==
    [message |-> "DockerHub Auto-Deploy API is running!",
     version |-> "1.0.0",
     deployments |-> deploymentStats,
     systemHealth |-> [docker |-> Flag("docker", "running"),
                       github |-> Flag("github", "active"),
                       aws |-> Flag("aws", "connected")]]

GetStatus ==
    /\ alive
    /\ Respond("status", <<>>, 200, StatusBody)
    /\ UNCHANGED <<rollout, host, nodeEnv, alive, deploymentStats, attempts, systemInfo, projects, runs,
                   healthPending, projectsPending>>

ProjectsRequest ==
    /\ alive
    /\ projectsPending < MaxPending
    /\ projectsPending' = projectsPending + 1
    /\ Silent
    /\ UNCHANGED <<rollout, host, nodeEnv, alive, deploymentStats, attempts, systemInfo, projects, runs,
                   healthPending>>

\* getGitProjects catches whatever it throws; the handler's own catch (index.js:296-299),
\* entered if res.json itself throws, is ProjectsFault.
ProjectsRespond(env) ==
    /\ alive
    /\ projectsPending > 0
    /\ projectsPending' = projectsPending - 1
    /\ \E gitStatus \in env.gitStatus, gitBranch \in env.gitBranch,
          gitLog \in env.gitLog, ps \in env.ps, images \in env.images,
          rnd \in env.random :
          LET freshProjects == getGitProjects(gitStatus, gitBranch, gitLog, ps, images, rnd,
                                              deploymentStats.total)
          IN  /\ projects' = freshProjects
              /\ Respond("projects",
                         [gitStatus |-> gitStatus, gitOk |-> gitBranch.ok /\ gitLog.ok,
                          ps |-> ps, imagesOk |-> images.ok],
                         200, freshProjects)
    /\ UNCHANGED <<rollout, host, nodeEnv, alive, deploymentStats, attempts, systemInfo, runs, healthPending>>

\* The handler answering only once no refresh run is awaiting its probes.
GetSystemAfterRefresh ==
    /\ alive
    /\ \A r \in 1..Len(runs) : runs[r] \notin {"probing", "hung"}
    /\ Respond("system", <<>>, 200, systemInfo)
    /\ UNCHANGED <<rollout, host, nodeEnv, alive, deploymentStats, attempts, systemInfo,
                   projects, runs, healthPending, projectsPending>>

GetSystem ==
    /\ alive
    /\ Respond("system", <<>>, 200, systemInfo)
    /\ UNCHANGED <<rollout, host, nodeEnv, alive, deploymentStats, attempts, systemInfo, projects, runs,
                   healthPending, projectsPending>>

----------------------------------------------------------------------------
(* The deploy handler and its delayed callback. *)

DeploymentId(now, projectId) == "deploy_" \o NumToStr(now) \o "_" \o ToStringJs(projectId)

\* const { projectId, branch = 'main' } = req.body
BranchOf(body) == IF body.branch.t = "undefined" THEN "main" ELSE ToStringJs(body.branch)

\* The validation testing for null only.
RejectsOnlyNull(body) == body.projectId.t = "null"

\* if (!projectId) return res.status(400)...
Rejects(body) == ~ToBoolean(body.projectId)

\* Math.random() > 0.1, the reading in tenths
Success(random) == random > 1

\* The response reporting the outcome drawn for the attempt.
DeployBodyReportsOutcome(body, now, success) ==
    [success |-> success,
     message |-> IF success THEN "Deployment initiated for project " \o ToStringJs(body.projectId)
                            ELSE "Deployment failed",
     deploymentId |-> DeploymentId(now, body.projectId),
     projectId |-> body.projectId,
     branch |-> BranchOf(body),
     estimatedTime |-> "3-5 minutes"]

\* The body of the response to an accepted request; `success` is the outcome drawn for
\* the attempt, which the handler does not report.  timestamp is left out.
DeployBody(body, now, success) ==
    [success |-> TRUE,
     message |-> "Deployment initiated for project " \o ToStringJs(body.projectId),
     deploymentId |-> DeploymentId(now, body.projectId),
     projectId |-> body.projectId,
     branch |-> BranchOf(body),
     estimatedTime |-> "3-5 minutes"]

\* deploymentStats after the handler has accepted a request.
StatsAfterAccept(stats) == [stats EXCEPT !.total = @ + 1]

\* The callback counting successes only.
StatsAfterOutcomeSuccessOnly(stats, success) ==
    IF success THEN [stats EXCEPT !.successful = @ + 1] ELSE stats

\* deploymentStats after the callback of an attempt has run.
StatsAfterOutcome(stats, success) ==
    IF success THEN [stats EXCEPT !.successful = @ + 1]
               ELSE [stats EXCEPT !.failed = @ + 1]

\* POST /api/deploy.  No statement between `try` and res.json throws on a parsed body;
\* the catch (index.js:342-349), entered if res.json itself throws, is DeployFault.
PostDeploy(env) ==
    /\ alive
    /\ \E projectId \in env.projectIds, branch \in env.branches, now \in env.clock,
          random \in env.randomTenths :
          LET body == [projectId |-> projectId, branch |-> branch]
              request == [projectId |-> projectId, branch |-> branch, now |-> now]
          IN  IF Rejects(body)
              THEN /\ Respond("deploy", request, 400, [error |-> "Project ID is required"])
                   /\ UNCHANGED <<deploymentStats, attempts>>
              ELSE /\ Len(attempts) < MaxDeploys
                   /\ deploymentStats' = StatsAfterAccept(deploymentStats)
                   /\ attempts' = Append(attempts,
                                         [deploymentId |-> DeploymentId(now, projectId),
                                          success |-> Success(random),
                                          pending |-> TRUE])
                   /\ Respond("deploy", request, 200, DeployBody(body, now, Success(random)))
    /\ UNCHANGED <<rollout, host, nodeEnv, alive, systemInfo, projects, runs, healthPending, projectsPending>>

\* Timeouts of one duration run in the order they were set.
NextTimer(k) ==
    /\ k \in 1..Len(attempts)
    /\ attempts[k].pending
    /\ \A j \in 1..(k - 1) : ~attempts[j].pending

\* The callback passed to setTimeout(..., 2000) runs.
TimerFire ==
    /\ alive
    /\ \E k \in 1..Len(attempts) :
          /\ NextTimer(k)
          /\ deploymentStats' = StatsAfterOutcome(deploymentStats, attempts[k].success)
          /\ attempts' = [attempts EXCEPT ![k].pending = FALSE]
    /\ Silent
    /\ UNCHANGED <<rollout, host, nodeEnv, alive, systemInfo, projects, runs, healthPending, projectsPending>>

LogSteps ==
    << "Starting deployment...", "Checking system resources...", "Building Docker image...",
       "Pushing to DockerHub...", "Deploying to EC2...", "Running health checks...",
       "Deployment successful!" >>

\* systemInfo.system?.hostname: <<>> is undefined
SystemField(field) == IF systemInfo.published THEN <<systemInfo.system[field]>> ELSE <<>>

\* The handler looking the id up among the attempts.
DeploymentBodyLookedUp(id, time) ==
    IF \E k \in 1..Len(attempts) : attempts[k].deploymentId = id
    THEN [deploymentId |-> id, status |-> "completed",
          logs |-> [i \in 1..Len(LogSteps) |-> [time |-> time, step |-> LogSteps[i]]],
          duration |-> "4m 32s",
          systemInfo |-> [hostname |-> SystemField("hostname"), uptime |-> SystemField("uptime")]]
    ELSE [deploymentId |-> id, status |-> "not_found", logs |-> <<>>, duration |-> "",
          systemInfo |-> [hostname |-> SystemField("hostname"), uptime |-> SystemField("uptime")]]

\* timestamp is left out; the seven log lines carry one clock reading.
DeploymentBody(id, time) ==
    [deploymentId |-> id,
     status |-> "completed",
     logs |-> [i \in 1..Len(LogSteps) |-> [time |-> time, step |-> LogSteps[i]]],
     duration |-> "4m 32s",
     systemInfo |-> [hostname |-> SystemField("hostname"), uptime |-> SystemField("uptime")]]

\* The ids clients ask for: ids the server has issued and one it never issues.
RequestedIds == {attempts[k].deploymentId : k \in 1..Len(attempts)} \cup {"deploy_0_none"}

\* GET /api/deployments/:id
GetDeployment(env) ==
    /\ alive
    /\ \E id \in RequestedIds, time \in env.timeStrings :
          Respond("deployments", [id |-> id], 200, DeploymentBody(id, time))
    /\ UNCHANGED <<rollout, host, nodeEnv, alive, deploymentStats, attempts, systemInfo, projects, runs,
                   healthPending, projectsPending>>

\* deploymentStats after the callbacks of the attempts from the k-th on that are
\* pending have run.
RECURSIVE Drained(_, _)
Drained(stats, k) ==
    IF k > Len(attempts) THEN stats
    ELSE Drained(IF attempts[k].pending THEN StatsAfterOutcome(stats, attempts[k].success)
                                        ELSE stats,
                 k + 1)

\* The signal handler letting the pending timeouts run before it exits.
ShutdownDraining ==
    /\ alive
    /\ alive' = FALSE
    /\ deploymentStats' = Drained(deploymentStats, 1)
    /\ attempts' = [k \in 1..Len(attempts) |-> [attempts[k] EXCEPT !.pending = FALSE]]
    /\ Silent
    /\ UNCHANGED <<rollout, host, nodeEnv, systemInfo, projects, runs,
                   healthPending, projectsPending>>

\* SIGTERM or SIGINT: process.exit(0).
Shutdown ==
    /\ alive
    /\ alive' = FALSE
    /\ Silent
    /\ UNCHANGED <<rollout, host, nodeEnv, deploymentStats, attempts, systemInfo, projects, runs,
                   healthPending, projectsPending>>

----------------------------------------------------------------------------
(* The deployment scripts: deployment/deploy.sh (lines 67-126) and the     *)
(* script of the workflow's deploy job.  Both run under set -e: a command  *)
(* that fails ends the script, unless it is followed by || true.  A step   *)
(* of the model is one command of the script.                              *)

Scripts == {"deploy.sh", "workflow"}

\* The commands of a script that touch the containers or the image, in order.
Steps(script) ==
    IF script = "deploy.sh"
    THEN << "compose down", "stop", "rm", "pull", "write compose file", "compose up",
            "sleep", "health check", "image prune" >>
    ELSE << "container prune", "image prune", "pull", "stop", "rm", "write compose file",
            "compose up", "sleep", "health check" >>

\* A push to main starts the workflow, an operator starts deploy.sh.  The container left
\* by the earlier run is now the previous one.
StartRollout(script) ==
    /\ rollout.result # "running"
    /\ rollout.count < MaxRollouts
    /\ rollout' = [script |-> script, pc |-> 1, result |-> "running",
                   count |-> rollout.count + 1]
    /\ host' = [running |-> IF host.running = "none" THEN "none" ELSE "old",
                healthy |-> host.healthy,
                latest |-> "old"]
    /\ Silent
    /\ UNCHANGED <<nodeEnv, alive, deploymentStats, attempts, systemInfo, projects, runs,
                   healthPending, projectsPending>>

\* What the command at the script's position may do to the host, and whether it fails.
Outcomes(step) ==
    CASE step = "compose down" ->
            \* removes the containers of the compose project, if the directory has one
            {[host |-> [host EXCEPT !.running = "none", !.healthy = FALSE], ok |-> TRUE],
             [host |-> host, ok |-> TRUE]}
      [] step = "stop" ->
            {[host |-> [host EXCEPT !.running = "none", !.healthy = FALSE], ok |-> TRUE]}
      [] step = "pull" ->
            {[host |-> [host EXCEPT !.latest = "new"], ok |-> TRUE],
             [host |-> host, ok |-> FALSE]}
      [] step = "compose up" ->
            \* creates the container of the image :latest names, unless one is running
            IF host.running # "none"
            THEN {[host |-> host, ok |-> TRUE]}
            ELSE {[host |-> [host EXCEPT !.running = host.latest, !.healthy = h], ok |-> TRUE]
                     : h \in BOOLEAN}
                 \cup {[host |-> host, ok |-> FALSE]}
      [] step = "health check" ->
            {[host |-> host, ok |-> host.running # "none" /\ host.healthy]}
      [] OTHER ->
            \* rm and the prunes remove what is stopped or unused; sleep, writing a file
            {[host |-> host, ok |-> TRUE]}

ScriptStep ==
    /\ rollout.result = "running"
    /\ \E outcome \in Outcomes(Steps(rollout.script)[rollout.pc]) :
          /\ host' = outcome.host
          /\ rollout' =
                IF ~outcome.ok THEN [rollout EXCEPT !.result = "failed"]
                ELSE IF rollout.pc = Len(Steps(rollout.script))
                THEN [rollout EXCEPT !.result = "done"]
                ELSE [rollout EXCEPT !.pc = @ + 1]
    /\ Silent
    /\ UNCHANGED <<nodeEnv, alive, deploymentStats, attempts, systemInfo, projects, runs,
                   healthPending, projectsPending>>

----------------------------------------------------------------------------
(* The 500 answers.  The error middleware (index.js:381-388) answers the   *)
(* errors express hands to it: express.json() on a malformed body, sendFile *)
(* on a missing client build.  The handlers of GET /api/projects and POST  *)
(* /api/deploy answer a throw inside their own try block themselves; the   *)
(* last statement of either try block is res.json, and a throw there comes *)
(* after the statements before it have run.                                *)

\* err.message of the errors handed to the error middleware.
MiddlewareErrors == {"Unexpected token } in JSON at position 12",
                     "ENOENT: no such file or directory, stat 'index.html'"}

\* error.message of what is thrown inside the try block of a handler.
HandlerFaults == {"Converting circular structure to JSON", "write EPIPE"}

ErrorBody(err) ==
    [error |-> "Internal Server Error",
     message |-> IF nodeEnv = "development" THEN err ELSE "Something went wrong"]

\* app.use((err, req, res, next) => ...)
MiddlewareError ==
    /\ alive
    /\ \E err \in MiddlewareErrors : Respond("error", [fault |-> err], 500, ErrorBody(err))
    /\ UNCHANGED <<rollout, host, nodeEnv, alive, deploymentStats, attempts, systemInfo, projects, runs,
                   healthPending, projectsPending>>

\* GET /api/projects: res.json(projects) throws, the catch of index.js:296-299 answers.
ProjectsFault(env) ==
    /\ alive
    /\ projectsPending > 0
    /\ projectsPending' = projectsPending - 1
    /\ \E gitStatus \in env.gitStatus, gitBranch \in env.gitBranch,
          gitLog \in env.gitLog, ps \in env.ps, images \in env.images,
          rnd \in env.random, err \in HandlerFaults :
          /\ projects' = getGitProjects(gitStatus, gitBranch, gitLog, ps, images, rnd,
                                        deploymentStats.total)
          /\ Respond("projects", [fault |-> err], 500,
                     [error |-> "Failed to fetch projects", message |-> err])
    /\ UNCHANGED <<rollout, host, nodeEnv, alive, deploymentStats, attempts, systemInfo, runs, healthPending>>

\* POST /api/deploy: res.json throws after total += 1 and setTimeout, the catch of
\* index.js:342-349 counts a failure and answers; the timeout stays set.
DeployFault(env) ==
    /\ alive
    /\ Len(attempts) < MaxDeploys
    /\ \E projectId \in env.projectIds, branch \in env.branches, now \in env.clock,
          random \in env.randomTenths, err \in HandlerFaults :
          LET body == [projectId |-> projectId, branch |-> branch]
          IN  /\ ~Rejects(body)
              /\ deploymentStats' = [StatsAfterAccept(deploymentStats) EXCEPT !.failed = @ + 1]
              /\ attempts' = Append(attempts,
                                    [deploymentId |-> DeploymentId(now, projectId),
                                     success |-> Success(random),
                                     pending |-> TRUE])
              /\ Respond("deploy", [projectId |-> projectId, branch |-> branch, now |-> now,
                                    fault |-> err],
                         500, [success |-> FALSE, error |-> "Deployment failed", message |-> err])
    /\ UNCHANGED <<rollout, host, nodeEnv, alive, systemInfo, projects, runs, healthPending, projectsPending>>

----------------------------------------------------------------------------
(* Specifications. *)

Runs == 1..Len(runs)

\* The whole server, every command answering as it may.
Next ==
    \/ Tick
    \/ \E r \in Runs : Publish(r, FullEnv)
    \/ \E r \in Runs : DeriveProjects(r, FullEnv)
    \/ HealthRequest \/ HealthRespond(FullEnv)
    \/ ProjectsRequest \/ ProjectsRespond(FullEnv)
    \/ GetSystem \/ GetStatus
    \/ PostDeploy(FullEnv) \/ TimerFire \/ GetDeployment(FullEnv)
    \/ MiddlewareError
    \/ Shutdown

Spec == Init /\ [][Next]_vars

\* The server as deployed: deploy.sh and the workflow start the container with
\* NODE_ENV=production.  The answers modelled below do not depend on NODE_ENV, those of
\* the error middleware apart.
InProduction == nodeEnv = "production"
InitProduction == Init /\ InProduction

\* The collector: the refresh runs and the handlers that read what they publish or
\* probe for themselves, while no deploy request arrives.
CollectorNext ==
    \/ Tick
    \/ \E r \in Runs : Publish(r, SmallEnv)
    \/ \E r \in Runs : DeriveProjects(r, SmallEnv)
    \/ ProjectsRequest \/ ProjectsRespond(SmallEnv)
    \/ GetSystem \/ GetStatus
    \/ Shutdown

SpecCollector == InitProduction /\ [][CollectorNext]_vars

\* The two handlers that run commands themselves, GET /api/projects and GET /api/health,
\* on every output of git, docker, df and free, while the probes of the startup refresh
\* are still running.
ProbingNext ==
    \/ ProjectsRequest \/ ProjectsRespond(FullEnv)
    \/ HealthRequest \/ HealthRespond(FullEnv)
    \/ Shutdown

SpecProbing == InitProduction /\ [][ProbingNext]_vars

\* The deploy side: the handlers that write or read deploymentStats, while the probes of
\* the startup refresh are still running and no tick has fired.
DeployNext ==
    \/ PostDeploy(FullEnv) \/ TimerFire \/ GetDeployment(FullEnv)
    \/ GetStatus
    \/ Shutdown

SpecDeploy == InitProduction /\ [][DeployNext]_vars

\* A timeout that is due runs while the process is alive.
FairSpecDeploy == SpecDeploy /\ WF_vars(TimerFire)

\* The answers to errors: the error middleware and the two handlers that catch for
\* themselves, under every NODE_ENV, on one answer per command.
FaultNext ==
    \/ MiddlewareError
    \/ ProjectsRequest \/ ProjectsRespond(TinyEnv) \/ ProjectsFault(TinyEnv)
    \/ PostDeploy(TinyEnv) \/ DeployFault(TinyEnv) \/ TimerFire
    \/ Shutdown

SpecFaults == Init /\ [][FaultNext]_vars

\* The collector when commands may never terminate, on one answer per command that does.
HangNext ==
    \/ Tick
    \/ \E r \in Runs : Hang(r)
    \/ \E r \in Runs : Publish(r, TinyEnv)
    \/ \E r \in Runs : DeriveProjects(r, TinyEnv)
    \/ HealthRequest \/ HealthRespond(TinyEnv)
    \/ ProjectsRequest \/ ProjectsRespond(TinyEnv)
    \/ GetSystem \/ GetStatus

SpecHang == InitProduction /\ [][HangNext]_vars

\* The snapshot shows a failed probe.
ShowsFailure ==
    systemInfo.published /\ (Degraded(systemInfo.docker) \/ Degraded(systemInfo.system))

\* The commands as the retry meets them: docker ps and df may fail until the snapshot
\* shows a failed probe, and succeed for as long as it does.
RetryEnv ==
    IF ShowsFailure
    THEN TinyEnv
    ELSE [TinyEnv EXCEPT !.ps = @ \cup {Failed}, !.df = @ \cup {FailedText}]

\* The collector and its readers while the process lives.
RetryNext ==
    \/ Tick
    \/ \E r \in Runs : Publish(r, RetryEnv)
    \/ \E r \in Runs : DeriveProjects(r, TinyEnv)
    \/ GetSystem \/ GetStatus

SpecRetry == InitProduction /\ [][RetryNext]_vars

\* The timer keeps firing while the process lives, and refresh runs keep completing.
FairSpecRetry ==
    /\ SpecRetry
    /\ WF_vars(Tick)
    /\ WF_vars(\E r \in Runs : Publish(r, RetryEnv))

\* Every outcome of docker ps and docker images, one answer of every other command.
DockerEnv == [TinyEnv EXCEPT !.ps = PsOutcomes, !.images = ImagesOutcomes]

\* The docker probe on every output of its commands, as the refresh calls it and GET
\* /api/system serves it.
DockerNext ==
    \/ Tick
    \/ \E r \in Runs : Publish(r, DockerEnv)
    \/ \E r \in Runs : DeriveProjects(r, TinyEnv)
    \/ GetSystem

SpecDocker == InitProduction /\ [][DockerNext]_vars

\* The EC2 host: runs of the two deployment scripts, one after another.
RolloutNext ==
    \/ \E script \in Scripts : StartRollout(script)
    \/ ScriptStep

SpecRollout == InitProduction /\ [][RolloutNext]_vars

\* The whole server while it runs, on one answer per command: the refresh started at
\* startup (a tick starts the same function), all the endpoints and the deploy timers
\* interleaved.
FrameNext ==
    \/ \E r \in Runs : Publish(r, TinyEnv)
    \/ \E r \in Runs : DeriveProjects(r, TinyEnv)
    \/ HealthRequest \/ HealthRespond(TinyEnv)
    \/ ProjectsRequest \/ ProjectsRespond(TinyEnv)
    \/ GetSystem \/ GetStatus
    \/ PostDeploy(TinyEnv) \/ TimerFire \/ GetDeployment(TinyEnv)

SpecFrame == InitProduction /\ [][FrameNext]_vars

----------------------------------------------------------------------------
(* Properties. *)

\* The four entries of a published snapshot come from one refresh run.
FromOneRun(info) ==
    \E r \in Runs : /\ info.docker.run = r /\ info.system.run = r
                     /\ info.github.run = r /\ info.aws.run = r

\* C1: the snapshot held, and the snapshot GET /api/system serves, is empty or is made
\* of the four probe results of one single refresh run, also when runs overlap.
C1_SnapshotFromOneRun ==
    /\ systemInfo = EmptySnapshot \/ FromOneRun(systemInfo)
    /\ event.op = "system" =>
          /\ event.body = systemInfo
          /\ event.body = EmptySnapshot \/ FromOneRun(event.body)

\* GET /api/system serves the snapshot of the second run while the first run, started
\* earlier, is still probing.
C1_Witness ==
    /\ event.op = "system"
    /\ event.body.published
    /\ event.body.docker.run = 2
    /\ runs[1] = "probing"

\* C2: a POST /api/deploy without projectId is answered 400, and the step that answers
\* it changes no counter and sets no timeout.
C2_MissingProjectIdRejected ==
    [][ (event'.op = "deploy" /\ event'.request.projectId = JsUndefined) =>
            /\ event'.status = 400
            /\ deploymentStats' = deploymentStats
            /\ attempts' = attempts ]_vars

\* A request without projectId has been rejected while an earlier attempt is pending.
C2_Witness ==
    /\ event.op = "deploy"
    /\ event.request.projectId = JsUndefined
    /\ event.status = 400
    /\ \E k \in 1..Len(attempts) : attempts[k].pending

\* C3: a POST /api/deploy whose body carries a projectId is answered with success = true
\* and deploymentId deploy_<clock>_<projectId>, total being incremented by exactly 1 in
\* the step that answers.
C3_PresentProjectIdAccepted ==
    [][ (event'.op = "deploy" /\ event'.request.projectId # JsUndefined) =>
            /\ event'.status = 200
            /\ event'.body.success
            /\ event'.body.deploymentId =
                  "deploy_" \o NumToStr(event'.request.now) \o "_"
                            \o ToStringJs(event'.request.projectId)
            /\ deploymentStats'.total = deploymentStats.total + 1 ]_vars

\* C4: every answer of GET /api/health is 200 with status 'OK', whether df and free
\* succeeded or failed.
C4_HealthAlwaysOk ==
    event.op = "health" => event.status = 200 /\ event.body.status = "OK"

\* GET /api/health has answered after df failed.
C4_Witness == event.op = "health" /\ ~event.request.df

PsFailed == "Command failed: docker ps"

\* C5: a snapshot published or served after docker ps failed has docker.running = false
\* and docker.containerCount = 0, and GET /api/projects answers with at least one entry
\* when its docker ps failed.
C5_DockerDownDegrades ==
    /\ (event.op = "publish" /\ ~event.ps.ok) =>
          ~systemInfo.docker.running /\ systemInfo.docker.containerCount = 0
    /\ (systemInfo.published /\ systemInfo.docker.error = PsFailed) =>
          ~systemInfo.docker.running /\ systemInfo.docker.containerCount = 0
    /\ (event.op = "system" /\ event.body.published /\ event.body.docker.error = PsFailed) =>
          ~event.body.docker.running /\ event.body.docker.containerCount = 0
    /\ (event.op = "projects" /\ ~event.request.ps.ok) =>
          event.status = 200 /\ Len(event.body) >= 1

\* GET /api/projects has answered after its docker ps failed, the snapshot held being
\* one published after docker ps failed.
C5_Witness ==
    /\ event.op = "projects"
    /\ ~event.request.ps.ok
    /\ systemInfo.published
    /\ systemInfo.docker.error = PsFailed

\* C6: whatever probes fail, the step in which a run's Promise.all resolves publishes a
\* snapshot with the four entries, each being what its probe returns on the answers of
\* its own commands.
C6_ProbesIsolated ==
    event.op = "publish" =>
        /\ systemInfo.published
        /\ systemInfo.docker = getDockerInfo(event.run, event.ps, event.images)
        /\ systemInfo.system = getSystemMetrics(event.run, event.df, event.free)
        /\ systemInfo.github = checkGitHubActions(event.run, event.readdir)
        /\ systemInfo.aws = checkAWSConnection(event.run, event.ip, event.meta)

\* The second run has published over the first one's snapshot although its docker and
\* cloud probes failed; its host probe did not fail.
C6_Witness ==
    /\ event.op = "publish"
    /\ event.run = 2
    /\ runs[1] # "probing"
    /\ ~event.ps.ok /\ ~event.meta.ok /\ event.df.ok
    /\ systemInfo.system.error = Absent

Resolves(k) == attempts[k].pending /\ ~attempts'[k].pending
Resolved == deploymentStats.successful + deploymentStats.failed

C9_FixedTranscript ==
    event.op = "deployments" =>
        /\ event.status = 200
        /\ event.body.deploymentId = event.request.id
        /\ event.body.status = "completed"
        /\ Len(event.body.logs) = 7
        /\ \A i \in 1..7 : event.body.logs[i].step = LogSteps[i]
        /\ event.body.duration = "4m 32s"

\* The transcript of an id the server never issued has been served after two attempts.
C9_Witness ==
    /\ event.op = "deployments"
    /\ \A k \in 1..Len(attempts) : attempts[k].deploymentId # event.request.id
    /\ deploymentStats.total >= 2

\* C10: in every list GET /api/projects answers with, the entry at position i has id i.
C10_IdsPositional ==
    event.op = "projects" =>
        \A i \in 1..Len(event.body) : event.body[i].id = i

\* The lines of a docker ps answer that name a container: none when docker ps or
\* docker images failed.
UsableContainers(request) ==
    IF request.ps.ok /\ request.imagesOk
    THEN {i \in 1..Len(request.ps.out) :
             /\ LineTruthy(request.ps.out[i])
             /\ ~LineIncludes(request.ps.out[i], "NAMES")
             /\ request.ps.out[i][1] # ""}
    ELSE {}

NotGitRepo(request) ==
    request.gitStatus.ok /\ Includes(request.gitStatus.out, "Not a git repo")
GitUsable(request) ==
    request.gitStatus.ok /\ request.gitOk /\ ~Includes(request.gitStatus.out, "Not a git repo")

\* An entry that carries neither git nor container data.
Synthetic(entry) == entry.gitInfo = <<>> /\ entry.containerInfo = <<>>

\* C11: GET /api/projects answers with exactly one synthetic entry (id 1, name
\* 'DockerHub Auto-Deploy System', branch 'main') when git status says 'Not a git repo'
\* and docker lists no usable container, and with no synthetic entry at all when the git
\* data or a container line is usable.
C11_PlaceholderOnlyWithoutData ==
    event.op = "projects" =>
        /\ (NotGitRepo(event.request) /\ UsableContainers(event.request) = {}) =>
              /\ Len(event.body) = 1
              /\ Synthetic(event.body[1])
              /\ event.body[1].id = 1
              /\ event.body[1].name = ProjectName
              /\ event.body[1].branch = "main"
        /\ (GitUsable(event.request) \/ UsableContainers(event.request) # {}) =>
              \A i \in 1..Len(event.body) : ~Synthetic(event.body[i])

\* C12: no 500 answer carries the message of the error behind it unless NODE_ENV is
\* 'development', whether the error middleware or the handler of GET /api/projects or
\* POST /api/deploy built the answer.
C12_MessageOnlyInDevelopment ==
    (event.op \in {"error", "projects", "deploy"} /\ event.status = 500) =>
        (event.body.message = event.request.fault => nodeEnv = "development")

\* C13: a step changes deploymentStats only if it is the handler of POST /api/deploy
\* accepting a request or the callback of an attempt; a refresh step and an answer of
\* any other endpoint leave the three counters as they are; no counter ever decreases.
C13_StatsOnlyByDeploy ==
    [][ /\ deploymentStats' # deploymentStats =>
              \/ event'.op = "deploy" /\ event'.status = 200
              \/ \E k \in 1..Len(attempts) : Resolves(k)
        /\ (\/ runs' # runs
            \/ systemInfo' # systemInfo
            \/ projects' # projects
            \/ healthPending' # healthPending
            \/ projectsPending' # projectsPending
            \/ event'.op \in {"publish", "health", "status", "projects", "system",
                              "deployments"}) =>
              deploymentStats' = deploymentStats
        /\ deploymentStats'.total >= deploymentStats.total
        /\ deploymentStats'.successful >= deploymentStats.successful
        /\ deploymentStats'.failed >= deploymentStats.failed ]_vars

\* A refresh run has finished and GET /api/projects has answered after two attempts
\* were counted, one successful and one failed.
C13_Witness ==
    /\ event.op = "projects"
    /\ \E r \in Runs : runs[r] = "done"
    /\ deploymentStats = [total |-> 2, successful |-> 1, failed |-> 1]

\* An application container is up and answers /api/health.
Serving == host.running # "none" /\ host.healthy

\* C14: while a deployment script runs and after it has finished, an application
\* container is up and serving; the previous container is stopped only once the new
\* one has passed its health check.
C14_ZeroDowntime ==
    /\ [](rollout.result \in {"running", "done"} => Serving)
    /\ [][ (host.running = "old" /\ host'.running # "old") =>
              (rollout.result = "running"
               /\ Steps(rollout.script)[rollout.pc] = "health check") ]_vars

\* C15: a probe whose command failed returns its safe defaults together with an error
\* field, for the container, host-metrics, workflow-listing and cloud-lookup probes of
\* a refresh and for the git probe of GET /api/projects, and the request is answered 200.
C15_FailedProbeCarriesError ==
    /\ event.op = "publish" =>
          /\ ~(event.ps.ok /\ event.images.ok) =>
                /\ systemInfo.docker.error # Absent
                /\ ~systemInfo.docker.running
                /\ systemInfo.docker.containerCount = 0
          /\ ~(event.df.ok /\ event.free.ok) =>
                systemInfo.system.error # Absent
          /\ ~event.readdir.ok =>
                /\ systemInfo.github.error # Absent
                /\ ~systemInfo.github.active
                /\ systemInfo.github.count = 0
          /\ (~event.ip.ok \/ ~event.meta.ok \/ Includes(event.meta.out, "Not on AWS")) =>
                /\ systemInfo.aws.error # Absent
                /\ ~systemInfo.aws.connected
    /\ event.op = "projects" =>
          /\ event.status = 200
          /\ (~event.request.gitStatus.ok \/ ~event.request.gitOk
              \/ Includes(event.request.gitStatus.out, "Not a git repo")) =>
                \E i \in 1..Len(event.body) : event.body[i].error # Absent

\* A run moves from probing to deriving to done and never back.
Advances(from, to) ==
    \/ to = from
    \/ from = "probing" /\ to = "deriving"
    \/ from = "deriving" /\ to = "done"

\* C16: a tick starts a refresh run whatever the earlier runs are doing; no step
\* cancels or restarts a run; every run that is probing can settle, and the step in
\* which it settles assigns the snapshot with that run's results.
C16_RefreshRunsOverlap ==
    /\ []((alive /\ Len(runs) < MaxRuns) => ENABLED Tick)
    /\ [](\A r \in Runs : (alive /\ runs[r] = "probing") => ENABLED Publish(r, SmallEnv))
    /\ [][ /\ Len(runs') >= Len(runs)
           /\ \A r \in Runs :
                 /\ Advances(runs[r], runs'[r])
                 /\ (runs[r] = "probing" /\ runs'[r] = "deriving") =>
                       (systemInfo'.published /\ systemInfo'.docker.run = r) ]_vars

\* The first run assigns the snapshot after the second, started a tick later, has
\* assigned it, while the second is still in flight.
C16_Witness ==
    /\ event.op = "publish"
    /\ event.run = 1
    /\ Len(runs) >= 2
    /\ runs[2] = "deriving"
    /\ systemInfo.docker.run = 1

\* C17: a step of a refresh run writes no process-wide variable but systemInfo, which
\* the run assigns once.
C17_RefreshWritesSnapshotOnly ==
    [][ (\E r \in Runs : runs'[r] # runs[r]) =>
            /\ projects' = projects
            /\ deploymentStats' = deploymentStats ]_vars

\* C17, as the code has it: a refresh run writes process-wide state in two steps and
\* each once: systemInfo when its four probes have settled, the project list left as it
\* is, and then the project list with what the deriver returns, systemInfo left as it
\* is; neither step writes deploymentStats, and a tick writes none of the three.
C17_RefreshWritesSnapshotThenProjects ==
    [][ /\ \A r \in Runs :
              /\ Advances(runs[r], runs'[r])
              /\ (runs[r] = "probing" /\ runs'[r] = "deriving") =>
                    /\ systemInfo'.published /\ systemInfo'.docker.run = r
                    /\ projects' = projects
                    /\ deploymentStats' = deploymentStats
              /\ (runs[r] = "deriving" /\ runs'[r] = "done") =>
                    /\ systemInfo' = systemInfo
                    /\ Len(projects') >= 1
                    /\ deploymentStats' = deploymentStats
        /\ Len(runs') > Len(runs) =>
              /\ systemInfo' = systemInfo
              /\ projects' = projects
              /\ deploymentStats' = deploymentStats ]_vars

\* Two runs have finished: the second assigned the snapshot last, and the project list
\* holds what a deriver returned.
C17_Witness ==
    /\ runs = <<"done", "done">>
    /\ systemInfo.docker.run = 2
    /\ Len(projects) >= 1

\* The name and status fields of a line of docker ps; a line without a tab has no status.
NameAndStatus(line) == <<Trim(line[1]), IF Len(line) >= 2 THEN Trim(line[2]) ELSE "">>

\* The name and status of the container-derived entries of a project list.
ShownContainers(body) ==
    {<<body[i].name, body[i].containerInfo[1].status>> :
        i \in {k \in 1..Len(body) : body[k].containerInfo # <<>>}}

\* The name and status of the containers in the docker entry of the snapshot.
SnapshotContainers ==
    IF systemInfo.published
    THEN {NameAndStatus(systemInfo.docker.containers[i]) :
             i \in 1..Len(systemInfo.docker.containers)}
    ELSE {}

\* The name and status of the containers docker ps listed for the request itself.
ListedContainers(request) ==
    {NameAndStatus(request.ps.out[j]) : j \in UsableContainers(request)}

\* C18: the containers GET /api/projects shows are the containers of the docker entry
\* of the snapshot held, which GET /api/system serves.
C18_ContainersFromSnapshot ==
    event.op = "projects" => ShownContainers(event.body) = SnapshotContainers

\* C18, as the code has it: the containers GET /api/projects shows are those of the
\* listing the deriver obtains itself by running docker ps for the request, all of
\* them unless the answer is the fallback entry; the snapshot is not consulted.
C18_ContainersFromOwnListing ==
    event.op = "projects" =>
        /\ ShownContainers(event.body) \subseteq ListedContainers(event.request)
        /\ (\A i \in 1..Len(event.body) : event.body[i].error = Absent) =>
              ListedContainers(event.request) \subseteq ShownContainers(event.body)

\* GET /api/projects shows a container while the snapshot held, published by a run
\* whose docker ps failed, has none.
C18_Witness ==
    /\ event.op = "projects"
    /\ ShownContainers(event.body) # {}
    /\ systemInfo.published
    /\ systemInfo.docker.containers = <<>>

\* C19: POST /api/deploy answers 400 if and only if the body carries no projectId; a
\* request that carries one, whatever its value, is accepted: its step adds 1 to total
\* and sets one timeout.
C19_RejectsIffAbsent ==
    [][ event'.op = "deploy" =>
            /\ event'.status = 400 <=> event'.request.projectId = JsUndefined
            /\ event'.request.projectId # JsUndefined =>
                  /\ deploymentStats'.total = deploymentStats.total + 1
                  /\ Len(attempts') = Len(attempts) + 1 ]_vars

Pending == {k \in 1..Len(attempts) : attempts[k].pending}

CanRetry == Len(runs) < MaxRuns \/ \E r \in Runs : runs[r] = "probing"

\* C22: a run publishes once, and what it publishes of a probe whose command failed is
\* the degraded result; when the snapshot shows a failed docker or metrics probe, the
\* commands succeed from then on and a run is still to publish, the snapshot comes to
\* show that probe's non-degraded result.
C22_NextTickRetries ==
    /\ [][\A r \in Runs : runs[r] # "probing" => runs'[r] # "probing"]_vars
    /\ [](event.op = "publish" =>
            /\ Degraded(systemInfo.docker) <=> ~(event.ps.ok /\ event.images.ok)
            /\ systemInfo.docker.running <=> (event.ps.ok /\ event.images.ok)
            /\ Degraded(systemInfo.system) <=> ~(event.df.ok /\ event.free.ok))
    /\ (systemInfo.published /\ Degraded(systemInfo.docker) /\ CanRetry)
          ~> (systemInfo.published /\ systemInfo.docker.running
                 /\ ~Degraded(systemInfo.docker))
    /\ (systemInfo.published /\ Degraded(systemInfo.system) /\ CanRetry)
          ~> (systemInfo.published /\ ~Degraded(systemInfo.system))

\* The snapshot shows the failed docker probe of the first run, which is over; the
\* second run, started by the next tick, has its probes in flight.
C22_Witness ==
    /\ Len(runs) >= 2
    /\ runs[1] = "done"
    /\ runs[2] = "probing"
    /\ systemInfo.published
    /\ systemInfo.docker.run = 1
    /\ Degraded(systemInfo.docker)
    /\ ~systemInfo.docker.running

\* C23: in every state successful + failed <= total, and total - successful - failed
\* is the number of accepted attempts whose delayed callback has not run, the
\* handler's catch that adds to failed included.
C23_CountersBalance ==
    /\ Resolved <= deploymentStats.total
    /\ deploymentStats.total - Resolved = Cardinality(Pending)

\* C24: a run assigns the snapshot only while no run started after it has assigned
\* it, so snapshots are published in the order their runs started.
C24_PublishedInStartOrder ==
    event.op = "publish" =>
        \A later \in Runs : later > event.run => runs[later] = "probing"

\* C25: while no run has published, GET /api/system answers the empty object and GET
\* /api/status reports the three systemHealth flags false; once a snapshot is
\* published, each flag is the value of docker.running, github.active, aws.connected
\* of the snapshot in place when the request is answered.
C25_FlagsFollowSnapshot ==
    /\ (event.op = "system" /\ ~systemInfo.published) =>
          (event.status = 200 /\ event.body = EmptySnapshot)
    /\ (event.op = "status" /\ ~systemInfo.published) =>
          event.body.systemHealth = [docker |-> FALSE, github |-> FALSE, aws |-> FALSE]
    /\ (event.op = "status" /\ systemInfo.published) =>
          /\ event.body.systemHealth.docker = (systemInfo.docker.running = TRUE)
          /\ event.body.systemHealth.github = (systemInfo.github.active = TRUE)
          /\ event.body.systemHealth.aws = (systemInfo.aws.connected = TRUE)

\* GET /api/status answered from a published snapshot whose flags differ: docker runs,
\* no workflow file was found.
C25_Witness ==
    /\ event.op = "status"
    /\ systemInfo.published
    /\ event.body.systemHealth.docker
    /\ ~event.body.systemHealth.github
    /\ systemInfo.docker.running
    /\ ~systemInfo.github.active

\* C26: the containerCount of a published docker entry is the length of its containers
\* list and is not negative, whatever docker ps printed.
C26_CountIsNumberOfContainers ==
    systemInfo.published =>
        /\ systemInfo.docker.containerCount = Len(systemInfo.docker.containers)
        /\ systemInfo.docker.containerCount >= 0

\* A listed container whose line has a name and no status field.
EntryFails(request) ==
    \E i \in UsableContainers(request) : Len(request.ps.out[i]) < 2

\* C27: GET /api/projects is answered 200 with a list that is not empty; when the git
\* commands succeed and a container line has a name but no status field, the list is
\* exactly one entry with id 1, status 'unknown' and an error message, carrying
\* neither the git data nor any container.
C27_EntryFailureGivesOneUnknown ==
    event.op = "projects" =>
        /\ event.status = 200
        /\ Len(event.body) >= 1
        /\ (event.request.gitStatus.ok /\ event.request.gitOk /\ EntryFails(event.request)) =>
              /\ Len(event.body) = 1
              /\ event.body[1].id = 1
              /\ event.body[1].status = "unknown"
              /\ event.body[1].error # Absent
              /\ Synthetic(event.body[1])
              /\ projects = event.body

\* In a git repository, docker ps prints a container line with padded columns and no
\* tab: the answer is the single 'unknown' entry.
C27_Witness ==
    /\ event.op = "projects"
    /\ GitUsable(event.request)
    /\ EntryFails(event.request)
    /\ Len(event.body) = 1
    /\ event.body[1].status = "unknown"
    /\ event.body[1].error # Absent

====
